---------------------------- MODULE Spec2Model ----------------------------
(***************************************************************************)
(* Model of the checkout validation function cartValidationsGenerateRun   *)
(* (extensions/nuphy-checkout-validation/src/cart_validations_generate_   *)
(* run.js) and of the host that builds a cart snapshot and calls it.      *)
(*                                                                         *)
(* JavaScript values are modelled as records of one shape per kind, with  *)
(* a flag for "null or undefined":                                         *)
(*   number       [nan, n]            (NaN, or the integer n)              *)
(*   quantity     [defined, n]        (undefined, or the integer n)        *)
(*   product      [present, id]                                            *)
(*   merchandise  [present, typename, product]                             *)
(*   line         [present, quantity, merchandise]                         *)
(*   input        [buyerJourney: [present, step],                          *)
(*                 cart: [present, hasLines, lines]]                       *)
(* Strings that are not ASCII in the source are written with JavaScript   *)
(* \u escapes.                                                             *)
(***************************************************************************)
EXTENDS Integers, Sequences, FiniteSets

VARIABLES input, result

vars == <<input, result>>

---------------------------------------------------------------------------
(* Bounds of the model *)

MaxLen == 3

MaxQty == 2

---------------------------------------------------------------------------
(* Configuration: CONFIG[ENVIRONMENT] with ENVIRONMENT = "test" *)

MYSTERY_BOX_1_ID == "gid://shopify/Product/8953675907329"

MYSTERY_BOX_2_ID == "gid://shopify/Product/8953675940097"

DOLLAR_PRODUCT_1_ID == "gid://shopify/Product/8953676398849"

DOLLAR_PRODUCT_2_ID == "gid://shopify/Product/8953676103937"

OTHER_PRODUCT_ID == "gid://shopify/Product/9999999999999"

MYSTERY_BOX_IDS == {MYSTERY_BOX_1_ID, MYSTERY_BOX_2_ID}

DOLLAR_PRODUCT_IDS == {DOLLAR_PRODUCT_1_ID, DOLLAR_PRODUCT_2_ID}

---------------------------------------------------------------------------
(* The three error records pushed by the function *)

Rule1Error ==
  [message |-> "You can only purchase one Mystery Box per order.",
   target |-> "cart"]

Rule2Error ==
  [message |-> "Mystery Box and deposit products can\\u2019t be bought together. ",
   target |-> "cart"]

Rule3Error ==
  [message |-> "Mystery Box cannot be purchased alone. Please add something else to your cart.",
   target |-> "cart"]

(* The messages the test file looks up *)

TestRule1Message ==
  "\\u76f2\\u76d2\\u4ea7\\u54c1\\u6bcf\\u6b21\\u53ea\\u80fd\\u8d2d\\u4e701\\u4e2a,\\u8bf7\\u8c03\\u6574\\u6570\\u91cf"

TestRule2Message ==
  "\\u76f2\\u76d2\\u4ea7\\u54c1\\u548c1\\u7f8e\\u5143\\u4ea7\\u54c1\\u4e0d\\u80fd\\u540c\\u65f6\\u8d2d\\u4e70,\\u8bf7\\u79fb\\u9664\\u5176\\u4e2d\\u4e00\\u4e2a"

TestRule3Message ==
  "\\u76f2\\u76d2\\u4ea7\\u54c1\\u4e0d\\u80fd\\u5355\\u72ec\\u8d2d\\u4e70,\\u8bf7\\u6dfb\\u52a0\\u5176\\u4ed6\\u4ea7\\u54c1\\u5230\\u8d2d\\u7269\\u8f66"

---------------------------------------------------------------------------
(* JavaScript numbers as far as the function uses them *)

NaN == [nan |-> TRUE, n |-> 0]

Number(k) == [nan |-> FALSE, n |-> k]

(* a += q : undefined converts to NaN, and NaN is absorbing *)
PlusAssign(a, q) ==
  IF a.nan \/ ~q.defined THEN NaN ELSE Number(a.n + q.n)

(* a > k : every comparison with NaN is false *)
GreaterThan(a, k) == ~a.nan /\ a.n > k

---------------------------------------------------------------------------
(* Line items *)

NoProduct == [present |-> FALSE, id |-> ""]

Product(id) == [present |-> TRUE, id |-> id]

NoMerchandise == [present |-> FALSE, typename |-> "", product |-> NoProduct]

Merchandise(t, p) == [present |-> TRUE, typename |-> t, product |-> p]

Undefined == [defined |-> FALSE, n |-> 0]

Quantity(k) == [defined |-> TRUE, n |-> k]

NullLine ==
  [present |-> FALSE, quantity |-> Undefined, merchandise |-> NoMerchandise]

Line(q, m) == [present |-> TRUE, quantity |-> q, merchandise |-> m]

createCartLine(productId, quantity) ==
  Line(Quantity(quantity), Merchandise("ProductVariant", Product(productId)))

---------------------------------------------------------------------------
(* The value of a call: a returned result object, or a thrown TypeError *)

NotCalled == [status |-> "none", operations |-> <<>>]

Threw == [status |-> "threw", operations |-> <<>>]

Returned(errors) ==
  [status |-> "returned",
   operations |-> << [validationAdd |-> [errors |-> errors]] >>]

---------------------------------------------------------------------------
(* cartValidationsGenerateRun *)

(* isCheckoutPhase with the test for the two steps lost: any step passes *)
isCheckoutPhase_AnyStep(in) == in.buyerJourney.present

(* step = input?.buyerJourney?.step;
   step === "CHECKOUT_INTERACTION" || step === "CHECKOUT_COMPLETION" *)
isCheckoutPhase(in) ==
  /\ in.buyerJourney.present
  /\ \/ in.buyerJourney.step = "CHECKOUT_INTERACTION"
     \/ in.buyerJourney.step = "CHECKOUT_COMPLETION"

(* productId without the test of __typename *)
productId_AnyKind(line) ==
  IF line.merchandise.present /\ line.merchandise.product.present
  THEN line.merchandise.product.id
  ELSE ""

(* merchandise?.__typename === "ProductVariant" && merchandise.product
     ? merchandise.product.id : null          (null is written "") *)
productId(line) ==
  LET merchandise == line.merchandise IN
  IF /\ merchandise.present
     /\ merchandise.typename = "ProductVariant"
     /\ merchandise.product.present
  THEN merchandise.product.id
  ELSE ""

(* the counters before the loop *)
Counters0 ==
  [mysteryBoxQuantity |-> Number(0),
   dollarProductExists |-> FALSE,
   hasOtherProducts |-> FALSE,
   threw |-> FALSE]

(* LoopBody with "=" for "+=" on mysteryBoxQuantity *)
LoopBody_Overwrite(c, line) ==
  IF c.threw THEN c
  ELSE IF ~line.present THEN [c EXCEPT !.threw = TRUE]
  ELSE IF productId(line) = "" THEN c
  ELSE IF productId(line) \in MYSTERY_BOX_IDS
       THEN [c EXCEPT !.mysteryBoxQuantity = PlusAssign(Number(0), line.quantity)]
  ELSE IF productId(line) \in DOLLAR_PRODUCT_IDS
       THEN [c EXCEPT !.dollarProductExists = TRUE]
  ELSE [c EXCEPT !.hasOtherProducts = TRUE]

(* LoopBody counting a deposit line only when its quantity is positive *)
LoopBody_DollarByQuantity(c, line) ==
  IF c.threw THEN c
  ELSE IF ~line.present THEN [c EXCEPT !.threw = TRUE]
  ELSE IF productId(line) = "" THEN c
  ELSE IF productId(line) \in MYSTERY_BOX_IDS
       THEN [c EXCEPT !.mysteryBoxQuantity = PlusAssign(@, line.quantity)]
  ELSE IF productId(line) \in DOLLAR_PRODUCT_IDS
       THEN [c EXCEPT !.dollarProductExists =
               @ \/ (line.quantity.defined /\ line.quantity.n > 0)]
  ELSE [c EXCEPT !.hasOtherProducts = TRUE]

(* one iteration of the for...of loop; reading line.merchandise of a null
   line throws a TypeError, which ends the call *)
LoopBody(c, line) ==
  IF c.threw THEN c
  ELSE IF ~line.present THEN [c EXCEPT !.threw = TRUE]
  ELSE IF productId(line) = "" THEN c
  ELSE IF productId(line) \in MYSTERY_BOX_IDS
       THEN [c EXCEPT !.mysteryBoxQuantity = PlusAssign(@, line.quantity)]
  ELSE IF productId(line) \in DOLLAR_PRODUCT_IDS
       THEN [c EXCEPT !.dollarProductExists = TRUE]
  ELSE [c EXCEPT !.hasOtherProducts = TRUE]

(* ForOf with an early exit once a deposit product has been seen *)
RECURSIVE ForOf_EarlyExit(_, _, _)
ForOf_EarlyExit(lines, i, c) ==
  IF i > Len(lines) \/ c.dollarProductExists THEN c
  ELSE ForOf_EarlyExit(lines, i + 1, LoopBody(c, lines[i]))

RECURSIVE ForOf(_, _, _)
ForOf(lines, i, c) ==
  IF i > Len(lines) THEN c ELSE ForOf(lines, i + 1, LoopBody(c, lines[i]))

(* HasMysteryBox with ">=" for ">" *)
HasMysteryBox_NonNegative(c) == GreaterThan(c.mysteryBoxQuantity, -1)

(* if (mysteryBoxQuantity > 0) *)
HasMysteryBox(c) == GreaterThan(c.mysteryBoxQuantity, 0)

(* if (mysteryBoxQuantity > 1) *)
Rule1Applies(c) == GreaterThan(c.mysteryBoxQuantity, 1)

(* if (dollarProductExists) *)
Rule2Applies(c) == c.dollarProductExists

(* Rule3Applies without the test of dollarProductExists *)
Rule3Applies_IgnoresDollar(c) == ~c.hasOtherProducts

(* if (!hasOtherProducts && !dollarProductExists) *)
Rule3Applies(c) == ~c.hasOtherProducts /\ ~c.dollarProductExists

(* ApplyRules with the Rule 2 block placed before the Rule 1 block *)
ApplyRules_Reordered(c) ==
  IF GreaterThan(c.mysteryBoxQuantity, 0)
  THEN (IF c.dollarProductExists THEN <<Rule2Error>> ELSE <<>>)
       \o (IF GreaterThan(c.mysteryBoxQuantity, 1) THEN <<Rule1Error>> ELSE <<>>)
       \o (IF ~c.hasOtherProducts /\ ~c.dollarProductExists
           THEN <<Rule3Error>> ELSE <<>>)
  ELSE <<>>

(* the pushes onto errors, in source order *)
ApplyRules(c) ==
  IF HasMysteryBox(c)
  THEN (IF Rule1Applies(c) THEN <<Rule1Error>> ELSE <<>>)
       \o (IF Rule2Applies(c) THEN <<Rule2Error>> ELSE <<>>)
       \o (IF Rule3Applies(c) THEN <<Rule3Error>> ELSE <<>>)
  ELSE <<>>

(* input.cart.lines throws when cart is absent; iterating an absent lines
   list throws as well *)
cartValidationsGenerateRun(in) ==
  IF ~isCheckoutPhase(in) THEN Returned(<<>>)
  ELSE IF ~in.cart.present \/ ~in.cart.hasLines THEN Threw
  ELSE LET c == ForOf(in.cart.lines, 1, Counters0) IN
       IF c.threw THEN Threw ELSE Returned(ApplyRules(c))

---------------------------------------------------------------------------
(* The host: it builds a cart snapshot line by line and calls the function *)

NoJourney == [present |-> FALSE, step |-> ""]

Journey(step) == [present |-> TRUE, step |-> step]

Journeys ==
  {NoJourney, Journey("CART"), Journey("CHECKOUT_INTERACTION"),
   Journey("CHECKOUT_COMPLETION")}

Cart(lines) == [present |-> TRUE, hasLines |-> TRUE, lines |-> lines]

NoCart == [present |-> FALSE, hasLines |-> FALSE, lines |-> <<>>]

CartWithoutLines == [present |-> TRUE, hasLines |-> FALSE, lines |-> <<>>]

createInput(cart, journey) == [buyerJourney |-> journey, cart |-> cart]

LineProductIds ==
  {MYSTERY_BOX_1_ID, MYSTERY_BOX_2_ID, DOLLAR_PRODUCT_1_ID, OTHER_PRODUCT_ID}

(* line items of the documented shape: an integer quantity and a
   merchandise with a kind and an optional product *)
DocumentedLines ==
  {createCartLine(p, q) : p \in LineProductIds, q \in 0..MaxQty}
  \cup {Line(Quantity(1), Merchandise("ProductVariant", NoProduct))}
  \cup {Line(Quantity(1), Merchandise("CustomProduct", Product(p))) :
          p \in {MYSTERY_BOX_1_ID, DOLLAR_PRODUCT_2_ID}}

(* line items outside the documented shape: no quantity, no merchandise,
   or no line at all *)
MalformedLines ==
  {Line(Undefined, Merchandise("ProductVariant", Product(p))) :
     p \in {MYSTERY_BOX_1_ID, DOLLAR_PRODUCT_1_ID, OTHER_PRODUCT_ID}}
  \cup {Line(Quantity(1), NoMerchandise), NullLine}

Init ==
  /\ input \in {createInput(Cart(<<>>), j) : j \in Journeys}
  /\ result = NotCalled

InitAnyShape ==
  /\ input \in {createInput(c, j) :
                  c \in {Cart(<<>>), NoCart, CartWithoutLines}, j \in Journeys}
  /\ result = NotCalled

AddLine ==
  /\ result = NotCalled
  /\ input.cart.hasLines
  /\ Len(input.cart.lines) < MaxLen
  /\ \E line \in DocumentedLines :
       input' = [input EXCEPT !.cart.lines = Append(@, line)]
  /\ UNCHANGED result

AddMalformedLine ==
  /\ result = NotCalled
  /\ input.cart.hasLines
  /\ Len(input.cart.lines) < MaxLen
  /\ \E line \in MalformedLines :
       input' = [input EXCEPT !.cart.lines = Append(@, line)]
  /\ UNCHANGED result

Invoke ==
  /\ result = NotCalled
  /\ result' = cartValidationsGenerateRun(input)
  /\ UNCHANGED input

(* a smaller choice of line items, for carts compared with their
   reorderings: each bucket, an ignored line, a line without quantity and
   a null line *)
OrderLines ==
  {createCartLine(MYSTERY_BOX_1_ID, q) : q \in 0..MaxQty}
  \cup {createCartLine(MYSTERY_BOX_2_ID, 1),
        createCartLine(DOLLAR_PRODUCT_1_ID, 1),
        createCartLine(OTHER_PRODUCT_ID, 1),
        Line(Quantity(1),
             Merchandise("CustomProduct", Product(MYSTERY_BOX_1_ID))),
        Line(Undefined, Merchandise("ProductVariant", Product(MYSTERY_BOX_1_ID))),
        NullLine}

AddOrderLine ==
  /\ result = NotCalled
  /\ input.cart.hasLines
  /\ Len(input.cart.lines) < MaxLen
  /\ \E line \in OrderLines :
       input' = [input EXCEPT !.cart.lines = Append(@, line)]
  /\ UNCHANGED result

Next == AddLine \/ Invoke

NextAnyShape == AddLine \/ AddMalformedLine \/ Invoke

NextOrder == AddOrderLine \/ Invoke

Spec == Init /\ [][Next]_vars

SpecOrder == Init /\ [][NextOrder]_vars

SpecAnyShape == InitAnyShape /\ [][NextAnyShape]_vars

---------------------------------------------------------------------------
(* Vocabulary of the properties, stated on the input and the result and
   not through the function's own helpers *)

Called == result.status # "none"

AtCheckout ==
  /\ input.buyerJourney.present
  /\ input.buyerJourney.step \in {"CHECKOUT_INTERACTION", "CHECKOUT_COMPLETION"}

lines == input.cart.lines

(* a line the classification pass takes into account *)
Classified(line) ==
  /\ line.present
  /\ line.merchandise.present
  /\ line.merchandise.typename = "ProductVariant"
  /\ line.merchandise.product.present

InBucketA(line) ==
  /\ Classified(line)
  /\ line.merchandise.product.id \in {MYSTERY_BOX_1_ID, MYSTERY_BOX_2_ID}

InBucketB(line) ==
  /\ Classified(line)
  /\ line.merchandise.product.id \in {DOLLAR_PRODUCT_1_ID, DOLLAR_PRODUCT_2_ID}

IsOther(line) == Classified(line) /\ ~InBucketA(line) /\ ~InBucketB(line)

(* the sum of the quantities of the bucket-A lines among the first k lines *)
RECURSIVE SumA(_, _)
SumA(ls, k) ==
  IF k = 0 THEN 0
  ELSE SumA(ls, k - 1) + (IF InBucketA(ls[k]) THEN ls[k].quantity.n ELSE 0)

BucketATotal == SumA(lines, Len(lines))

BucketBPresent == \E i \in 1..Len(lines) : InBucketB(lines[i])

OtherPresent == \E i \in 1..Len(lines) : IsOther(lines[i])

ErrorsOf(r) == r.operations[1].validationAdd.errors

Fires(e) ==
  /\ result.status = "returned"
  /\ \E i \in 1..Len(ErrorsOf(result)) : ErrorsOf(result)[i] = e

---------------------------------------------------------------------------
(* C1. Stage gate: whenever the buyer journey is absent or its step is not
   CHECKOUT_INTERACTION or CHECKOUT_COMPLETION, the call returns one
   validationAdd operation with an empty error list, whatever the cart is
   (absent, malformed, or violating every rule). *)
C1_StageGate == (Called /\ ~AtCheckout) => result = Returned(<<>>)

C1_Witness ==
  /\ Called
  /\ ~input.buyerJourney.present
  /\ BucketATotal > 1
  /\ BucketBPresent

(* C2. Rule 1: at a checkout stage the Rule 1 error is in the result if and
   only if the quantities of the bucket-A lines sum to more than 1. *)
C2_Rule1 == (Called /\ AtCheckout) => (Fires(Rule1Error) <=> BucketATotal > 1)

C2_Witness ==
  /\ Called
  /\ AtCheckout
  /\ Fires(Rule1Error)
  /\ \E i, j \in 1..Len(lines) :
       /\ lines[i] = createCartLine(MYSTERY_BOX_1_ID, 1)
       /\ lines[j] = createCartLine(MYSTERY_BOX_2_ID, 1)
  /\ BucketATotal = 2
  /\ OtherPresent

(* C3. Rule 2: at a checkout stage the Rule 2 error is in the result if and
   only if the bucket-A total is positive and a bucket-B line is present,
   whatever that line's quantity; and Rule 3 does not fire when Rule 2
   does. *)
C3_Rule2 ==
  (Called /\ AtCheckout) =>
    /\ Fires(Rule2Error) <=> (BucketATotal > 0 /\ BucketBPresent)
    /\ Fires(Rule2Error) => ~Fires(Rule3Error)

C3_Witness ==
  /\ Called
  /\ AtCheckout
  /\ Fires(Rule2Error)
  /\ BucketATotal = 1
  /\ \A i \in 1..Len(lines) : InBucketB(lines[i]) => lines[i].quantity.n = 0

(* C4. Rule 3: at a checkout stage the Rule 3 error is in the result if and
   only if the bucket-A total is positive and the cart has neither a
   bucket-B line nor an other product; a bucket-A total of 1 with an other
   product and no bucket-B line gives no error at all. *)
C4_Rule3 ==
  (Called /\ AtCheckout) =>
    /\ Fires(Rule3Error) <=>
         (BucketATotal > 0 /\ ~BucketBPresent /\ ~OtherPresent)
    /\ (BucketATotal = 1 /\ OtherPresent /\ ~BucketBPresent) =>
         result = Returned(<<>>)

C4_Witness ==
  /\ Called
  /\ AtCheckout
  /\ Fires(Rule3Error)
  /\ BucketATotal = 1
  /\ Len(lines) > 1

(* C5. At a checkout stage, a bucket-A total of 0 gives an empty error
   list, whatever bucket-B and other lines are present. *)
C5_NoBucketA ==
  (Called /\ AtCheckout /\ BucketATotal = 0) => result = Returned(<<>>)

C5_Witness ==
  /\ Called
  /\ AtCheckout
  /\ BucketATotal = 0
  /\ \E i \in 1..Len(lines) : InBucketA(lines[i])
  /\ BucketBPresent

(* C6, as claimed. At a recognized checkout stage there is a cart for which
   one evaluation emits the Rule 1, Rule 2 and Rule 3 errors together, in
   that order. *)
CheckoutCarts ==
  UNION {[1..n -> DocumentedLines] : n \in 0..MaxLen}

C6_AllThreeTogether ==
  AtCheckout =>
    \E ls \in CheckoutCarts :
      cartValidationsGenerateRun(createInput(Cart(ls), input.buyerJourney))
      = Returned(<<Rule1Error, Rule2Error, Rule3Error>>)

(* C6, amended. The rules are not all mutually exclusive: Rule 1 fires
   together with Rule 2 or together with Rule 3, the Rule 1 error first.
   Rule 2 and Rule 3 never fire together, so at a checkout stage the error
   list is one of <<>>, <<1>>, <<2>>, <<3>>, <<1, 2>>, <<1, 3>>. *)
C6_RulesCombine ==
  (Called /\ AtCheckout) =>
    /\ result.status = "returned"
    /\ ErrorsOf(result) \in
         {<<>>, <<Rule1Error>>, <<Rule2Error>>, <<Rule3Error>>,
          <<Rule1Error, Rule2Error>>, <<Rule1Error, Rule3Error>>}
    /\ (BucketATotal > 1 /\ BucketBPresent) =>
         ErrorsOf(result) = <<Rule1Error, Rule2Error>>
    /\ (BucketATotal > 1 /\ ~BucketBPresent /\ ~OtherPresent) =>
         ErrorsOf(result) = <<Rule1Error, Rule3Error>>

C6_Witness ==
  /\ Called
  /\ AtCheckout
  /\ result = Returned(<<Rule1Error, Rule2Error>>)
  /\ ~OtherPresent

(* C7. The call never throws: for every input, also one without a cart,
   without a lines list or with a null line item, it returns a result with
   exactly one validationAdd operation. *)
C7_NeverThrows ==
  Called => (result.status = "returned" /\ Len(result.operations) = 1)

(* C8. A line whose merchandise is not a ProductVariant, or whose product
   is null or absent, is ignored: for every cart and stage the result is
   the result for the same input with all such lines removed. *)
Ignored(line) == line.present /\ ~Classified(line)

WithoutIgnored(in) ==
  [in EXCEPT !.cart.lines = SelectSeq(@, LAMBDA l : ~Ignored(l))]

C8_IgnoredLines ==
  Called => result = cartValidationsGenerateRun(WithoutIgnored(input))

C8_Witness ==
  /\ Called
  /\ AtCheckout
  /\ Len(lines) = 3
  /\ \E i \in 1..3 : lines[i] = createCartLine(MYSTERY_BOX_1_ID, 1)
  /\ \E i \in 1..3 :
       lines[i] = Line(Quantity(1),
                       Merchandise("CustomProduct", Product(MYSTERY_BOX_1_ID)))
  /\ \E i \in 1..3 :
       lines[i] = Line(Quantity(1), Merchandise("ProductVariant", NoProduct))
  /\ result = Returned(<<Rule3Error>>)

(* C9. Whenever a rule fires, the error list has an entry with the message
   the tests look up for that rule, and that entry has target "cart". *)
HasTestError(m) ==
  /\ result.status = "returned"
  /\ \E i \in 1..Len(ErrorsOf(result)) :
       /\ ErrorsOf(result)[i].message = m
       /\ ErrorsOf(result)[i].target = "cart"

C9_TestMessages ==
  (Called /\ AtCheckout) =>
    /\ BucketATotal > 1 => HasTestError(TestRule1Message)
    /\ (BucketATotal > 0 /\ BucketBPresent) => HasTestError(TestRule2Message)
    /\ (BucketATotal > 0 /\ ~BucketBPresent /\ ~OtherPresent) =>
         HasTestError(TestRule3Message)

(* C10. A ProductVariant line without a quantity is ignored or counted by
   presence only: at a checkout stage the result is the result for the
   cart with those lines removed, or for the cart with their quantity
   read as 0. *)
LacksQuantity(line) == Classified(line) /\ ~line.quantity.defined

WithoutLacking(in) ==
  [in EXCEPT !.cart.lines = SelectSeq(@, LAMBDA l : ~LacksQuantity(l))]

LackingAsZero(in) ==
  [in EXCEPT !.cart.lines =
     [i \in 1..Len(@) |->
        IF LacksQuantity(@[i]) THEN [@[i] EXCEPT !.quantity = Quantity(0)]
        ELSE @[i]]]

C10_MissingQuantity ==
  (Called /\ AtCheckout) =>
    \/ result = cartValidationsGenerateRun(WithoutLacking(input))
    \/ result = cartValidationsGenerateRun(LackingAsZero(input))

(* C11. Order independence: for every stage and every cart the result is
   the same for every permutation of the line items, and the same when a
   line of quantity q is replaced by two lines of the same product whose
   quantities sum to q; on a cart of the documented shape the result is
   that of the cart holding one bucket-A line with the summed quantity,
   one bucket-B line if any is present and one other line if any is
   present. *)
Permutations ==
  [n \in 0..(MaxLen + 1) |->
     {p \in [1..n -> 1..n] : \A i, j \in 1..n : p[i] = p[j] => i = j}]

Permuted(in, p) ==
  [in EXCEPT !.cart.lines = [i \in 1..Len(@) |-> @[p[i]]]]

SplitAt(in, i, a) ==
  [in EXCEPT !.cart.lines =
     SubSeq(@, 1, i - 1)
     \o << [@[i] EXCEPT !.quantity = Quantity(a)],
           [@[i] EXCEPT !.quantity = Quantity(@.n - a)] >>
     \o SubSeq(@, i + 1, Len(@))]

DocumentedShape ==
  /\ input.cart.present
  /\ input.cart.hasLines
  /\ \A i \in 1..Len(lines) :
       /\ lines[i].present
       /\ lines[i].merchandise.present
       /\ lines[i].quantity.defined

Summary(in) ==
  [in EXCEPT !.cart.lines =
     << createCartLine(MYSTERY_BOX_1_ID, BucketATotal) >>
     \o (IF BucketBPresent
         THEN << createCartLine(DOLLAR_PRODUCT_1_ID, 1) >> ELSE <<>>)
     \o (IF OtherPresent
         THEN << createCartLine(OTHER_PRODUCT_ID, 1) >> ELSE <<>>)]

C11_OrderIndependence ==
  Called =>
    /\ \A p \in Permutations[Len(lines)] :
         cartValidationsGenerateRun(Permuted(input, p)) = result
    /\ \A i \in 1..Len(lines) :
         (lines[i].present /\ lines[i].quantity.defined) =>
           \A a \in 0..lines[i].quantity.n :
             cartValidationsGenerateRun(SplitAt(input, i, a)) = result
    /\ DocumentedShape =>
         cartValidationsGenerateRun(Summary(input)) = result

C11_Witness ==
  /\ Called
  /\ AtCheckout
  /\ lines = << createCartLine(DOLLAR_PRODUCT_1_ID, 1),
                createCartLine(MYSTERY_BOX_1_ID, 1),
                createCartLine(MYSTERY_BOX_1_ID, 1) >>
  /\ result = Returned(<<Rule1Error, Rule2Error>>)

==========================================================================
